---------------------------- MODULE Spec2Model ----------------------------
(***************************************************************************)
(* QML / JavaScript IntelliSense: the import extractor, the documentation  *)
(* and function extractors, alias resolution, auto-import matching and the *)
(* import-insertion planner, modelled at the level of characters.          *)
(*                                                                         *)
(* A string is a sequence of one-character strings.  A regular expression  *)
(* is a sequence of nodes, run by a backtracking matcher with JavaScript's *)
(* priorities (greedy before lazy alternatives, an optional group tried    *)
(* before it is skipped).  A pattern carrying the g flag keeps lastIndex   *)
(* between calls of test(); that field of the one shared QML_JS_IMPORT     *)
(* object is the variable lastIndex.                                       *)
(***************************************************************************)
EXTENDS Integers, Sequences, FiniteSets, TLC

VARIABLES
    doc,        \* the markup document being edited: its full text
    lastIndex,  \* REGEX_PATTERNS.QML_JS_IMPORT.lastIndex (0-based)
    call,       \* the last call on the markup side: [op, arg, ret]
    resolved,   \* the last alias resolution on the present text of doc
    js,         \* the script file: the fragments written, in order
    jcall,      \* the last call on the script side: [op, arg, ret]
    files,          \* the script files on disk: per path its mode and version
    jsFileCache,    \* jsFileCache: per path the parsed functions, or nothing
    subscriptions,  \* the file watchers pushed to context.subscriptions
    pending,        \* per path, the change events not yet delivered
    request         \* the provider request under way, and where it stands

vars == <<doc, lastIndex, call, resolved, js, jcall,
         files, jsFileCache, subscriptions, pending, request>>

-----------------------------------------------------------------------------
(* Characters and strings *)

Lower == <<"a", "b", "c", "d", "e", "f", "g", "h", "i", "j", "k", "l", "m", "n", "o", "p", "q", "r", "s", "t", "u", "v", "w", "x", "y", "z">>
Upper == <<"A", "B", "C", "D", "E", "F", "G", "H", "I", "J", "K", "L", "M", "N", "O", "P", "Q", "R", "S", "T", "U", "V", "W", "X", "Y", "Z">>
Digits == <<"0", "1", "2", "3", "4", "5", "6", "7", "8", "9">>

Range(f) == {f[i] : i \in DOMAIN f}

\* \s and \w of the pattern language
SpaceChars == {" ", "\t", "\n", "\r"}
WordChars == Range(Lower) \cup Range(Upper) \cup Range(Digits) \cup {"_"}
LineTerminators == {"\n", "\r"}

Min(a, b) == IF a < b THEN a ELSE b

\* String.prototype.split('\n')
RECURSIVE Split(_), SplitAt(_, _)
Split(s) ==
    IF \A i \in 1..Len(s) : s[i] # "\n"
    THEN <<s>>
    ELSE SplitAt(s, CHOOSE n \in 1..Len(s) :
                        s[n] = "\n" /\ \A m \in 1..(n - 1) : s[m] # "\n")

SplitAt(s, i) == <<SubSeq(s, 1, i - 1)>> \o Split(SubSeq(s, i + 1, Len(s)))

\* Array.prototype.join(sep)
RECURSIVE Join(_, _)
Join(parts, sep) ==
    IF parts = <<>> THEN <<>>
    ELSE IF Len(parts) = 1 THEN parts[1]
    ELSE parts[1] \o sep \o Join(Tail(parts), sep)

\* String.prototype.trim()
RECURSIVE TrimLeft(_)
TrimLeft(s) ==
    IF s # <<>> /\ s[1] \in SpaceChars THEN TrimLeft(Tail(s)) ELSE s

RECURSIVE TrimRight(_)
TrimRight(s) ==
    IF s # <<>> /\ s[Len(s)] \in SpaceChars
    THEN TrimRight(SubSeq(s, 1, Len(s) - 1)) ELSE s

Trim(s) == TrimRight(TrimLeft(s))

\* String.prototype.startsWith(p)
StartsWith(s, p) == Len(p) <= Len(s) /\ SubSeq(s, 1, Len(p)) = p

\* toUpperCase / toLowerCase of one character
CharIndex(seq, c) == CHOOSE i \in 1..Len(seq) : seq[i] = c
\* toUpperCase that changes nothing
ToUpperChar_Same(c) == c

ToUpperChar(c) == IF c \in Range(Lower) THEN Upper[CharIndex(Lower, c)] ELSE c

\* toLowerCase that changes nothing
ToLowerChar_Same(c) == c

ToLowerChar(c) == IF c \in Range(Upper) THEN Lower[CharIndex(Upper, c)] ELSE c
ToLowerCase(s) == [i \in 1..Len(s) |-> ToLowerChar(s[i])]

-----------------------------------------------------------------------------
(* The regular-expression matcher *)

\* character classes
Only(set) == [neg |-> FALSE, set |-> set]
Not(set) == [neg |-> TRUE, set |-> set]
In(c, cls) == (c \in cls.set) # cls.neg

SpaceC == Only(SpaceChars)            \* \s
NonSpaceC == Not(SpaceChars)          \* \S
WordC == Only(WordChars)              \* \w
DotC == Not(LineTerminators)          \* .   without the s flag
AnyC == Not({})                       \* .   with the s flag

\* pattern nodes
Chr(cls) == [t |-> "chr", c |-> cls]
Lit(ch) == Chr(Only({ch}))
LitSeq(chars) == [i \in 1..Len(chars) |-> Lit(chars[i])]
Rep(cls, min, greedy) ==              \* x+  x*  x+?  x*?
    [t |-> "rep", c |-> cls, min |-> min, one |-> FALSE, greedy |-> greedy]
Maybe(cls) ==                         \* x?
    [t |-> "rep", c |-> cls, min |-> 0, one |-> TRUE, greedy |-> TRUE]
Opt(body) == [t |-> "opt", body |-> body]       \* (?: ... )?
Open(g) == [t |-> "open", g |-> g]              \* ( of group g
Close(g) == [t |-> "close", g |-> g]            \* ) of group g
Look(alts) == [t |-> "look", alts |-> alts]     \* (?= a1 | a2 | ... )
NLook(body) == [t |-> "nlook", body |-> body]   \* (?! ... )
Boi == [t |-> "boi"]                            \* ^  without the m flag
Eoi == [t |-> "eoi"]                            \* $  without the m flag

Fail == [ok |-> FALSE]
NoCaps(ng) == [g \in 1..ng |-> [def |-> FALSE, from |-> 0, to |-> 0]]

\* the number of consecutive characters of cls from pos on
Run(s, pos, cls) ==
    CHOOSE n \in 0..(Len(s) - pos + 1) :
        /\ pos + n > Len(s) \/ ~In(s[pos + n], cls)
        /\ \A i \in 0..(n - 1) : In(s[pos + i], cls)

\* the most characters a quantified class may take at pos
RunLimit(s, pos, h) ==
    IF h.one THEN Min(1, Run(s, pos, h.c)) ELSE Run(s, pos, h.c)

\* of the attempts <<k, result>> that succeeded, the one taking the most
\* (greedy) or the fewest (lazy) characters
Pick(good, greedy) ==
    IF good = {} THEN Fail
    ELSE IF greedy THEN (CHOOSE x \in good : \A y \in good : x[1] >= y[1])[2]
    ELSE (CHOOSE x \in good : \A y \in good : x[1] <= y[1])[2]

\* M: match the node sequence stk at position pos (1-based); the result is
\* the first success in backtracking order.  Node: the node h followed by the
\* nodes r.  Try: a quantified class takes lo..hi characters, the most that
\* lets the rest match when greedy, the fewest when lazy.  OrElse: an
\* optional group is entered first and skipped when that fails.
RECURSIVE M(_, _, _, _), Node(_, _, _, _, _), Try(_, _, _, _, _, _, _),
          OrElse(_, _, _, _, _)
M(s, stk, pos, caps) ==
    IF stk = <<>> THEN [ok |-> TRUE, end |-> pos, caps |-> caps]
    ELSE Node(s, Head(stk), Tail(stk), pos, caps)

Node(s, h, r, pos, caps) ==
    CASE h.t = "chr" ->
           IF pos <= Len(s) /\ In(s[pos], h.c)
           THEN M(s, r, pos + 1, caps) ELSE Fail
      [] h.t = "rep" ->
           Try(s, r, pos, caps, h.min, RunLimit(s, pos, h), h.greedy)
      [] h.t = "opt" ->
           OrElse(M(s, h.body \o r, pos, caps), s, r, pos, caps)
      [] h.t = "open" ->
           M(s, r, pos, [caps EXCEPT ![h.g] =
                            [def |-> FALSE, from |-> pos, to |-> pos]])
      [] h.t = "close" ->
           M(s, r, pos, [caps EXCEPT ![h.g] =
                            [def |-> TRUE, from |-> @.from, to |-> pos]])
      [] h.t = "look" ->
           IF \E i \in 1..Len(h.alts) : M(s, h.alts[i], pos, caps).ok
           THEN M(s, r, pos, caps) ELSE Fail
      [] h.t = "nlook" ->
           IF M(s, h.body, pos, caps).ok THEN Fail ELSE M(s, r, pos, caps)
      [] h.t = "boi" -> IF pos = 1 THEN M(s, r, pos, caps) ELSE Fail
      [] h.t = "eoi" ->
           IF pos = Len(s) + 1 THEN M(s, r, pos, caps) ELSE Fail

Try(s, r, pos, caps, lo, hi, greedy) ==
    Pick({x \in {<<k, M(s, r, pos + k, caps)>> : k \in lo..hi} : x[2].ok}, greedy)

OrElse(a, s, r, pos, caps) == IF a.ok THEN a ELSE M(s, r, pos, caps)

\* the match that an attempt <<p, result>> found at position p
Found(first) ==
    [ok |-> TRUE, index |-> first[1], end |-> first[2].end, caps |-> first[2].caps]

\* of the attempts that succeeded, the leftmost
Leftmost(good) ==
    IF good = {} THEN Fail
    ELSE Found(CHOOSE x \in good : \A y \in good : x[1] <= y[1])

\* the leftmost match starting at position start or later
Scan(s, re, ng, start) ==
    Leftmost({x \in {<<p, M(s, re, p, NoCaps(ng))>> : p \in start..(Len(s) + 1)} :
                 x[2].ok})

\* RegExpBuiltinExec: the search starts at li (0-based); li is 0 for a pattern
\* without the g flag
Exec(s, re, ng, li) == IF li > Len(s) THEN Fail ELSE Scan(s, re, ng, li + 1)

\* the text of group g of match m: undefined when the group took no part
Group(s, m, g) ==
    IF m.caps[g].def
    THEN [def |-> TRUE, str |-> SubSeq(s, m.caps[g].from, m.caps[g].to - 1)]
    ELSE [def |-> FALSE, str |-> <<>>]

\* match[g] with the default forgotten
GroupOr_NoDefault(s, m, g, dflt) == Group(s, m, g).str

\* match[g] || dflt
GroupOr(s, m, g, dflt) ==
    LET c == Group(s, m, g) IN IF c.def /\ c.str # <<>> THEN c.str ELSE dflt

\* RegExp.prototype.test on a pattern without the g flag
Test(s, re) == Exec(s, re, 0, 0).ok

\* RegExp.prototype.test on a pattern with the g flag, whose lastIndex is li:
\* the outcome and the lastIndex it leaves
TestOutcome(m) ==
    IF m.ok THEN [found |-> TRUE, lastIndex |-> m.end - 1]
    ELSE [found |-> FALSE, lastIndex |-> 0]

TestGlobal(s, re, ng, li) == TestOutcome(Exec(s, re, ng, li))

\* String.prototype.matchAll: the pattern is cloned and the clone starts at
\* the lastIndex of the original, which is left as it was; after the match m
\* the clone goes on from its end, one further when m is empty
RECURSIVE MatchAll(_, _, _, _), MatchRest(_, _, _, _)
MatchAll(s, re, ng, li) == MatchRest(s, re, ng, Exec(s, re, ng, li))

MatchRest(s, re, ng, m) ==
    IF ~m.ok THEN <<>>
    ELSE <<m>> \o MatchAll(s, re, ng,
                           IF m.end = m.index THEN m.end ELSE m.end - 1)

-----------------------------------------------------------------------------
(* REGEX_PATTERNS *)

\* /import\s+"([^"]+\.js)"\s+as\s+(\w+)/g
QML_JS_IMPORT ==
    LitSeq(<<"i", "m", "p", "o", "r", "t">>) \o <<Rep(SpaceC, 1, TRUE), Lit("\""), Open(1),
                           Rep(Not({"\""}), 1, TRUE)>>
    \o LitSeq(<<".", "j", "s">>) \o <<Close(1), Lit("\""), Rep(SpaceC, 1, TRUE)>>
    \o LitSeq(<<"a", "s">>) \o <<Rep(SpaceC, 1, TRUE), Open(2), Rep(WordC, 1, TRUE),
                          Close(2)>>

\* /^\s*import\s+(?!".*\.js")[^\n]+/
QML_IMPORT ==
    <<Boi, Rep(SpaceC, 0, TRUE)>> \o LitSeq(<<"i", "m", "p", "o", "r", "t">>)
    \o <<Rep(SpaceC, 1, TRUE),
         NLook(<<Lit("\""), Rep(DotC, 0, TRUE)>> \o LitSeq(<<".", "j", "s", "\"">>)),
         Rep(Not({"\n"}), 1, TRUE)>>

\* the pattern without its ^ anchor
FUNCTION_DECLARATION_Unanchored ==
    LitSeq(<<"f", "u", "n", "c", "t", "i", "o", "n">>)
    \o <<Rep(SpaceC, 1, TRUE), Open(1), Rep(WordC, 1, TRUE), Close(1),
         Rep(SpaceC, 0, TRUE), Lit("("), Open(2), Rep(DotC, 0, FALSE), Close(2),
         Lit(")")>>

\* /^function\s+(\w+)\s*\((.*?)\)/
FUNCTION_DECLARATION ==
    <<Boi>> \o LitSeq(<<"f", "u", "n", "c", "t", "i", "o", "n">>)
    \o <<Rep(SpaceC, 1, TRUE), Open(1), Rep(WordC, 1, TRUE), Close(1),
         Rep(SpaceC, 0, TRUE), Lit("("), Open(2), Rep(DotC, 0, FALSE), Close(2),
         Lit(")")>>

\* /\/\*\*/
JSDOC_START == LitSeq(<<"/", "*", "*">>)

\* /\*\//
JSDOC_END == LitSeq(<<"*", "/">>)

\* the lookahead alternative  \n\s*\*\s*@
NextTagAhead ==
    <<Lit("\n"), Rep(SpaceC, 0, TRUE), Lit("*"), Rep(SpaceC, 0, TRUE), Lit("@")>>

\* /\/\*\*\s*\n?\s*\*\s*(.+?)(?=\n\s*\*\s*@|$)/s
JSDOC_DESCRIPTION ==
    LitSeq(<<"/", "*", "*">>)
    \o <<Rep(SpaceC, 0, TRUE), Maybe(Only({"\n"})), Rep(SpaceC, 0, TRUE), Lit("*"),
         Rep(SpaceC, 0, TRUE), Open(1), Rep(AnyC, 1, FALSE), Close(1),
         Look(<<NextTagAhead, <<Eoi>>>>)>>

\* /@param\s+(?:\{([^}]+)\}\s+)?(\S+)(?:\s+-\s+(.+?))?(?=\n|$)/g
JSDOC_PARAM ==
    LitSeq(<<"@", "p", "a", "r", "a", "m">>)
    \o <<Rep(SpaceC, 1, TRUE),
         Opt(<<Lit("{"), Open(1), Rep(Not({"}"}), 1, TRUE), Close(1), Lit("}"),
               Rep(SpaceC, 1, TRUE)>>),
         Open(2), Rep(NonSpaceC, 1, TRUE), Close(2),
         Opt(<<Rep(SpaceC, 1, TRUE), Lit("-"), Rep(SpaceC, 1, TRUE), Open(3),
               Rep(DotC, 1, FALSE), Close(3)>>),
         Look(<< <<Lit("\n")>>, <<Eoi>> >>)>>

\* /@returns?\s+(?:\{([^}]+)\}\s+)?(.+?)(?=\n\s*\*\s*@|\*\/|$)/s
JSDOC_RETURN ==
    LitSeq(<<"@", "r", "e", "t", "u", "r", "n">>)
    \o <<Maybe(Only({"s"})), Rep(SpaceC, 1, TRUE),
         Opt(<<Lit("{"), Open(1), Rep(Not({"}"}), 1, TRUE), Close(1), Lit("}"),
               Rep(SpaceC, 1, TRUE)>>),
         Open(2), Rep(AnyC, 1, FALSE), Close(2),
         Look(<<NextTagAhead, LitSeq(<<"*", "/">>), <<Eoi>>>>)>>

\* /\n\s*\*\s*/g, the pattern extractJSDoc replaces by a space
DocLineBreak ==
    <<Lit("\n"), Rep(SpaceC, 0, TRUE), Lit("*"), Rep(SpaceC, 0, TRUE)>>

\* a value that may be null: Null, or Val(v)
Null == [null |-> TRUE]
Val(v) == [null |-> FALSE, val |-> v]

-----------------------------------------------------------------------------
(* utils: paths.  A path is the sequence of its segments below the root. *)

Dirname(p) == SubSeq(p, 1, Len(p) - 1)
Basename(p) == p[Len(p)]

\* the segments of a path string
RECURSIVE SplitOn(_, _), SplitOnAt(_, _, _)
SplitOn(s, seps) ==
    IF \A i \in 1..Len(s) : s[i] \notin seps
    THEN <<s>>
    ELSE SplitOnAt(s, seps, CHOOSE n \in 1..Len(s) :
                                s[n] \in seps /\ \A m \in 1..(n - 1) : s[m] \notin seps)

SplitOnAt(s, seps, i) ==
    <<SubSeq(s, 1, i - 1)>> \o SplitOn(SubSeq(s, i + 1, Len(s)), seps)

\* path.resolve(dir, rel): "." and empty segments are dropped, ".." leaves
\* a directory, an absolute rel starts again from the root
RECURSIVE Walk(_, _)
Walk(at, segs) ==
    IF segs = <<>> THEN at
    ELSE IF Head(segs) = <<>> \/ Head(segs) = <<".">> THEN Walk(at, Tail(segs))
    ELSE IF Head(segs) = <<".", ".">>
    THEN Walk(IF at = <<>> THEN at ELSE Dirname(at), Tail(segs))
    ELSE Walk(Append(at, Head(segs)), Tail(segs))

PathResolve(dir, rel) ==
    IF rel # <<>> /\ rel[1] = "/" THEN Walk(<<>>, SplitOn(rel, {"/"}))
    ELSE Walk(dir, SplitOn(rel, {"/"}))

\* path.relative(from, to), as a path string
RECURSIVE CommonLen(_, _)
CommonLen(a, b) ==
    IF a # <<>> /\ b # <<>> /\ a[1] = b[1] THEN 1 + CommonLen(Tail(a), Tail(b))
    ELSE 0

PathRelative(from, to) ==
    LET c == CommonLen(from, to)
    IN  Join([i \in 1..(Len(from) - c) |-> <<".", ".">>] \o SubSeq(to, c + 1, Len(to)),
             <<"/">>)

resolveJsFilePath(documentPath, jsImportPath) ==
    PathResolve(Dirname(documentPath), jsImportPath)

-----------------------------------------------------------------------------
(* parser: the markup side *)

\* li is the lastIndex of the shared QML_JS_IMPORT object when the call starts
findJavaScriptImports(qmlContent, li) ==
    LET matches == MatchAll(qmlContent, QML_JS_IMPORT, 2, li)
    IN  [i \in 1..Len(matches) |->
            [file |-> Group(qmlContent, matches[i], 1).str,
             alias |-> Group(qmlContent, matches[i], 2).str]]

\* imports.find(imp => imp.alias === alias): the first such import, or Null
FindByAlias(imports, alias) ==
    IF \E i \in 1..Len(imports) : imports[i].alias = alias
    THEN Val(imports[CHOOSE i \in 1..Len(imports) :
                         /\ imports[i].alias = alias
                         /\ \A j \in 1..(i - 1) : imports[j].alias # alias])
    ELSE Null

findJsFileForAlias(qmlContent, documentPath, alias, li) ==
    LET imports == findJavaScriptImports(qmlContent, li)
        jsImport == FindByAlias(imports, alias)
    IN  IF jsImport.null THEN Null
        ELSE Val(resolveJsFilePath(documentPath, jsImport.val.file))

isAliasImported(qmlContent, alias, li) ==
    LET imports == findJavaScriptImports(qmlContent, li)
    IN  \E i \in 1..Len(imports) : imports[i].alias = alias

\* the loop of getLastQmlImportLine over lines[i..], 0-based
RECURSIVE LastQmlLoop(_, _, _)
LastQmlLoop(lines, i, lastImportLine) ==
    IF i >= Len(lines) THEN lastImportLine
    ELSE LastQmlLoop(lines, i + 1,
                     IF Test(lines[i + 1], QML_IMPORT) THEN i ELSE lastImportLine)

\* let lastImportLine = 0 in place of -1
getLastQmlImportLine_FromZero(qmlContent) == LastQmlLoop(Split(qmlContent), 0, 0)

getLastQmlImportLine(qmlContent) == LastQmlLoop(Split(qmlContent), 0, -1)

\* the loop of getLastJsImportLine: every test() starts at the lastIndex the
\* one before left, and the call returns the line and the lastIndex it leaves
RECURSIVE LastJsLoop(_, _, _, _), LastJsStep(_, _, _, _)
LastJsLoop(lines, i, lastImportLine, li) ==
    IF i >= Len(lines) THEN [line |-> lastImportLine, lastIndex |-> li]
    ELSE LastJsStep(lines, i, lastImportLine,
                    TestGlobal(lines[i + 1], QML_JS_IMPORT, 2, li))

\* t is the outcome of the test() on line i
LastJsStep(lines, i, lastImportLine, t) ==
    LastJsLoop(lines, i + 1, IF t.found THEN i ELSE lastImportLine, t.lastIndex)

getLastJsImportLine(qmlContent, li) == LastJsLoop(Split(qmlContent), 0, -1, li)

\* lines[n].trim() === '' without the trim
IsBlankAt_NoTrim(lines, n) == n < Len(lines) /\ lines[n + 1] = <<>>

IsBlankAt(lines, n) == n < Len(lines) /\ Trim(lines[n + 1]) = <<>>

getJsImportInsertionPoint(qmlContent, li) ==
    LET lines == Split(qmlContent)
        js1 == getLastJsImportLine(qmlContent, li)
        lastJsImport == js1.line
        lastQmlImport == getLastQmlImportLine(qmlContent)
        point ==
            IF lastJsImport >= 0
            THEN [line |-> lastJsImport + 1,
                  needsBlankLine |-> FALSE,
                  needsTrailingBlankLine |-> ~IsBlankAt(lines, lastJsImport + 1)]
            ELSE IF lastQmlImport >= 0
            THEN LET hasBlankLine == IsBlankAt(lines, lastQmlImport + 1)
                 IN  [line |-> IF hasBlankLine THEN lastQmlImport + 2
                               ELSE lastQmlImport + 1,
                      needsBlankLine |-> ~hasBlankLine,
                      needsTrailingBlankLine |-> TRUE]
            ELSE [line |-> 0,
                  needsBlankLine |-> FALSE,
                  needsTrailingBlankLine |->
                      Len(lines) > 0 /\ Trim(lines[1]) # <<>>]
    IN  [point |-> point, lastIndex |-> js1.lastIndex]

generateAliasFromFilename(filename) ==
    LET baseName == IF Len(filename) >= 3
                       /\ SubSeq(filename, Len(filename) - 2, Len(filename)) = <<".", "j", "s">>
                    THEN SubSeq(filename, 1, Len(filename) - 3)
                    ELSE filename
        parts == SplitOn(baseName, {"-", "_"})
        cap(part) == IF part = <<>> THEN part
                     ELSE <<ToUpperChar(part[1])>> \o Tail(part)
    IN  Join([i \in 1..Len(parts) |-> cap(parts[i])], <<>>) \o <<"J", "S">>

-----------------------------------------------------------------------------
(* parser: the script side *)

\* String.prototype.replace(re, by) for a g pattern without anchors
RECURSIVE ReplaceAll(_, _, _), ReplaceAt(_, _, _, _)
ReplaceAll(s, re, by) == ReplaceAt(s, re, by, Exec(s, re, 0, 0))

ReplaceAt(s, re, by, m) ==
    IF ~m.ok \/ m.end = m.index THEN s
    ELSE SubSeq(s, 1, m.index - 1) \o by
         \o ReplaceAll(SubSeq(s, m.end, Len(s)), re, by)

\* the backward scan that does not stop at a blank line
RECURSIVE ScanToEnd_PastBlank(_, _)
ScanToEnd_PastBlank(lines, j) ==
    IF j >= 0 /\ ~Test(lines[j + 1], JSDOC_END)
    THEN ScanToEnd_PastBlank(lines, j - 1)
    ELSE j

\* the backward scan for the line that ends a comment: j, 0-based, or -1
RECURSIVE ScanToEnd(_, _)
ScanToEnd(lines, j) ==
    IF j >= 0 /\ Trim(lines[j + 1]) # <<>> /\ ~Test(lines[j + 1], JSDOC_END)
    THEN ScanToEnd(lines, j - 1)
    ELSE j

\* the backward scan for the line that opens a documentation block: k or -1
RECURSIVE ScanToStart(_, _)
ScanToStart(lines, k) ==
    IF k >= 0 /\ ~Test(lines[k + 1], JSDOC_START)
    THEN ScanToStart(lines, k - 1)
    ELSE k

DefaultJSDoc == [documentation |-> <<>>, returnType |-> <<"a", "n", "y">>, paramDocs |-> <<>>]

\* functionLineIndex is 0-based, as in the source
extractJSDoc(lines, functionLineIndex) ==
    LET j == ScanToEnd(lines, functionLineIndex - 1)
    IN  IF j >= 0 /\ Test(lines[j + 1], JSDOC_END)
        THEN LET k == ScanToStart(lines, j)
                 \* lines k..j, or 0..j when no line opens a block
                 jsdocLines == SubSeq(lines, (IF k >= 0 THEN k ELSE 0) + 1, j + 1)
                 jsdocContent == Join(jsdocLines, <<"\n">>)
                 descMatch == Exec(jsdocContent, JSDOC_DESCRIPTION, 1, 0)
                 paramMatches == MatchAll(jsdocContent, JSDOC_PARAM, 3, 0)
                 returnMatch == Exec(jsdocContent, JSDOC_RETURN, 2, 0)
             IN  [documentation |->
                      IF descMatch.ok
                      THEN Trim(ReplaceAll(Group(jsdocContent, descMatch, 1).str,
                                           DocLineBreak, <<" ">>))
                      ELSE <<>>,
                  returnType |->
                      IF returnMatch.ok
                      THEN GroupOr(jsdocContent, returnMatch, 1, <<"a", "n", "y">>)
                      ELSE <<"a", "n", "y">>,
                  paramDocs |->
                      [i \in 1..Len(paramMatches) |->
                          [type |-> GroupOr(jsdocContent, paramMatches[i], 1, <<"a", "n", "y">>),
                           name |-> Group(jsdocContent, paramMatches[i], 2).str,
                           description |->
                               GroupOr(jsdocContent, paramMatches[i], 3, <<>>)]]]
        ELSE DefaultJSDoc

\* .split(',').map(p => p.trim()).filter(p => p)
RECURSIVE NonEmpty(_)
NonEmpty(parts) ==
    IF parts = <<>> THEN <<>>
    ELSE IF Head(parts) = <<>> THEN NonEmpty(Tail(parts))
    ELSE <<Head(parts)>> \o NonEmpty(Tail(parts))

ParamList(raw) ==
    LET parts == SplitOn(raw, {","})
    IN  NonEmpty([i \in 1..Len(parts) |-> Trim(parts[i])])

\* functions.push({...}) for the declaration that functionMatch found
FunctionInfo(line, functionMatch, jsdoc) ==
    [name |-> Group(line, functionMatch, 1).str,
     params |-> ParamList(Group(line, functionMatch, 2).str),
     paramDocs |-> jsdoc.paramDocs,
     returnType |-> jsdoc.returnType,
     documentation |-> jsdoc.documentation]

\* the loop of parseJavaScriptFunctions over lines[i..], 0-based
RECURSIVE ParseLoop(_, _), ParseLine(_, _, _)
ParseLoop(lines, i) ==
    IF i >= Len(lines) THEN <<>>
    ELSE ParseLine(lines, i, Exec(lines[i + 1], FUNCTION_DECLARATION, 2, 0))

ParseLine(lines, i, functionMatch) ==
    IF ~functionMatch.ok THEN ParseLoop(lines, i + 1)
    ELSE <<FunctionInfo(lines[i + 1], functionMatch, extractJSDoc(lines, i))>>
         \o ParseLoop(lines, i + 1)

parseJavaScriptFunctions(jsContent) == ParseLoop(Split(jsContent), 0)

\* MAX_JS_FILES_TO_SEARCH
MAX_JS_FILES_TO_SEARCH == 500

\* the document being edited and the script files the workspace enumerates,
\* in the order vscode.workspace.findFiles returns them
DocumentPath == <<<<"w">>, <<"M", "a", "i", "n", ".", "q", "m", "l">>>>
WorkspaceFiles ==
    << <<<<"w">>, <<"u", "t", "i", "l", ".", "j", "s">>>>,
       <<<<"w">>, <<"l", "i", "b">>, <<"a", "c", "c", "o", "u", "n", "t", "-", "h", "e", "l", "p", "e", "r", ".", "j", "s">>>>,
       <<<<"w">>, <<"l", "i", "b">>, <<"u", "t", "i", "l", "-", "h", "e", "l", "p", "e", "r", ".", "j", "s">>>>,
       <<<<"w">>, <<".", "s", "c", "r", "i", "p", "t", "s">>, <<"d", "b", ".", "j", "s">>>> >>

FindFiles(maxResults) == SubSeq(WorkspaceFiles, 1, Min(Len(WorkspaceFiles), maxResults))

findMatchingJsFiles(partialIdentifier, documentPath) ==
    LET jsFiles == FindFiles(MAX_JS_FILES_TO_SEARCH)
        documentDir == Dirname(documentPath)
        suggestedAlias(file) == generateAliasFromFilename(Basename(file))
        hit(file) == StartsWith(ToLowerCase(suggestedAlias(file)),
                                ToLowerCase(partialIdentifier))
        found == SelectSeq(jsFiles, hit)
    IN  [i \in 1..Len(found) |->
            LET relativePath == PathRelative(documentDir, found[i])
            IN  [path |-> found[i],
                 alias |-> suggestedAlias(found[i]),
                 relativePath |-> IF StartsWith(relativePath, <<".">>)
                                  THEN relativePath
                                  ELSE <<".", "/">> \o relativePath]]

-----------------------------------------------------------------------------
(* providers: auto-import suggestions *)

\* document.getWordRangeAtPosition with the cursor in the identifier that
\* starts line ln (0-based): the identifier, or Null when the line starts
\* with no word character
WordAt(qmlContent, ln) ==
    LET line == Split(qmlContent)[ln + 1]
        n == Run(line, 1, WordC)
    IN  IF n = 0 THEN Null ELSE Val(SubSeq(line, 1, n))

\* /^[A-Z]/.test(word)
IsCapitalized(word) == word # <<>> /\ word[1] \in Range(Upper)

\* the text a suggestion inserts
ImportStatement(match, insertPoint) ==
    (IF insertPoint.needsBlankLine THEN <<"\n">> ELSE <<>>)
    \o <<"i", "m", "p", "o", "r", "t", " ", "\"">> \o match.relativePath \o <<"\"", " ", "a", "s", " ">> \o match.alias \o <<"\n">>
    \o (IF insertPoint.needsTrailingBlankLine THEN <<"\n">> ELSE <<>>)

\* the suggestion for one match, planned at insertPoint
Suggestion(match, insertPoint, replaceWord) ==
    [alias |-> match.alias,
     line |-> insertPoint.line,
     text |-> ImportStatement(match, insertPoint),
     replaceWord |-> replaceWord]

SuggestCons(item, rest) ==
    [items |-> <<item>> \o rest.items, lastIndex |-> rest.lastIndex]

\* matches.map(...): one suggestion per match; every iteration calls
\* getJsImportInsertionPoint, which starts at the lastIndex the one before
\* left; p is what that call returned for the first match
RECURSIVE Suggest(_, _, _, _), SuggestAt(_, _, _, _)
Suggest(matches, qmlContent, li, replaceWord) ==
    IF matches = <<>> THEN [items |-> <<>>, lastIndex |-> li]
    ELSE SuggestAt(matches, qmlContent, replaceWord,
                   getJsImportInsertionPoint(qmlContent, li))

SuggestAt(matches, qmlContent, replaceWord, p) ==
    SuggestCons(Suggestion(Head(matches), p.point, replaceWord),
                Suggest(Tail(matches), qmlContent, p.lastIndex, replaceWord))

\* provideCompletionItems with the cursor at the end of the identifier that
\* starts line ln, so that no dot precedes the cursor
provideCompletionItems(qmlContent, documentPath, ln, li) ==
    LET wordRange == WordAt(qmlContent, ln)
        word == wordRange.val
        none == [items |-> <<>>, lastIndex |-> li]
    IN  IF wordRange.null THEN none
        ELSE IF ~(Len(word) >= 2 /\ IsCapitalized(word)) THEN none
        ELSE IF isAliasImported(qmlContent, word, li) THEN none
        ELSE Suggest(findMatchingJsFiles(word, documentPath), qmlContent, li, TRUE)

\* provideCodeActions with range.start in the identifier that starts line ln
provideCodeActions(qmlContent, documentPath, ln, li) ==
    LET wordRange == WordAt(qmlContent, ln)
        word == wordRange.val
        line == Split(qmlContent)[ln + 1]
        none == [items |-> <<>>, lastIndex |-> li]
    IN  IF wordRange.null THEN none
        ELSE IF ~IsCapitalized(word) THEN none
        ELSE IF isAliasImported(qmlContent, word, li) THEN none
        \* line.indexOf(word) is 0: the word starts the line
        ELSE IF Len(line) > Len(word) /\ line[Len(word) + 1] = "."
        THEN Suggest(findMatchingJsFiles(word, documentPath), qmlContent, li, FALSE)
        ELSE none

\* the offset of line ln, column 0; a line past the last one is the end of
\* the text (the editor clamps the position)
RECURSIVE OffsetOfLine(_, _)
OffsetOfLine(lines, ln) ==
    IF ln = 0 THEN 0 ELSE Len(lines[1]) + 1 + OffsetOfLine(Tail(lines), ln - 1)

InsertAtLine(text, ln, s) ==
    LET lines == Split(text)
        off == IF ln < Len(lines) THEN OffsetOfLine(lines, ln) ELSE Len(text)
    IN  SubSeq(text, 1, off) \o s \o SubSeq(text, off + 1, Len(text))

\* the identifier that starts line ln replaced by alias (item.insertText)
ReplaceWordAt(text, ln, alias) ==
    LET lines == Split(text)
        n == Run(lines[ln + 1], 1, WordC)
    IN  Join([i \in 1..Len(lines) |->
                 IF i = ln + 1
                 THEN alias \o SubSeq(lines[i], n + 1, Len(lines[i]))
                 ELSE lines[i]], <<"\n">>)

\* a suggestion applied to the text it was computed for
ApplyItem(text, ln, item) ==
    InsertAtLine(IF item.replaceWord THEN ReplaceWordAt(text, ln, item.alias)
                 ELSE text,
                 item.line, item.text)

-----------------------------------------------------------------------------
(* providers: member completion, hover and definition on an imported script *)

\* /(\w+)\.(\w*)$/
ALIAS_DOT_PREFIX ==
    <<Open(1), Rep(WordC, 1, TRUE), Close(1), Lit("."),
      Open(2), Rep(WordC, 0, TRUE), Close(2), Eoi>>

\* /(\w+)\.(\w+)/
ALIAS_DOT_FUNCTION ==
    <<Open(1), Rep(WordC, 1, TRUE), Close(1), Lit("."),
      Open(2), Rep(WordC, 1, TRUE), Close(2)>>

\* new RegExp(`function\\s+${functionName}\\s*\\(`, 'g')
FunctionRegex(functionName) ==
    LitSeq(<<"f", "u", "n", "c", "t", "i", "o", "n">>) \o <<Rep(SpaceC, 1, TRUE)>> \o LitSeq(functionName)
    \o <<Rep(SpaceC, 0, TRUE), Lit("(")>>

\* the script files the document can import, and the text of each version
\* a file goes through as it is rewritten
ScriptPaths == { <<<<"w">>, <<"a", ".", "j", "s">>>> }
ScriptVersions ==
    << <<"f", "u", "n", "c", "t", "i", "o", "n", " ", "f", "(", ")", " ", "{", "}">>,
       <<" ", " ", "f", "u", "n", "c", "t", "i", "o", "n", " ", "g", "(", "a", ")", " ", "{", "}", "\n", "f", "u", "n", "c", "t", "i", "o", "n", " ", "f", "(", "x", ")", " ", "{", "}">>,
       <<>> >>
ContentOf(version) == ScriptVersions[(version % Len(ScriptVersions)) + 1]

\* fs.existsSync and fs.readFileSync on the files fs; a file that is absent
\* or cannot be read makes readFileSync throw
ExistsSync(fs, filePath) == fs[filePath].mode # "absent"
ReadFileSync(fs, filePath) ==
    IF fs[filePath].mode = "file"
    THEN [threw |-> FALSE, val |-> ContentOf(fs[filePath].version)]
    ELSE [threw |-> TRUE]

\* an exception that leaves safeReadFile
Raised == [null |-> TRUE, raised |-> TRUE]

\* safeReadFile without its catch
Caught_Rethrown(r) == IF r.threw THEN Raised ELSE Val(r.val)

\* try { return readFileSync } catch { return null }
Caught(r) == IF r.threw THEN Null ELSE Val(r.val)

\* if (!jsContent): null and the empty string are no content
NoContent(jsContent) == jsContent.null \/ jsContent.val = <<>>

\* the text before a position right after the first dot of the line
LinePrefix(line) ==
    IF \E i \in 1..Len(line) : line[i] = "."
    THEN SubSeq(line, 1, CHOOSE i \in 1..Len(line) :
                             line[i] = "." /\ \A j \in 1..(i - 1) : line[j] # ".")
    ELSE line

\* linePrefix.match(ALIAS_DOT_PREFIX)[1]
DotAlias(line) ==
    LET dotMatch == Exec(LinePrefix(line), ALIAS_DOT_PREFIX, 2, 0)
    IN  IF dotMatch.ok THEN Val(Group(LinePrefix(line), dotMatch, 1).str) ELSE Null

\* extractAliasAndFunction with the position in the qualified name of the line
extractAliasAndFunction(line) ==
    LET match == Exec(line, ALIAS_DOT_FUNCTION, 2, 0)
    IN  IF ~match.ok THEN Null
        ELSE Val([alias |-> Group(line, match, 1).str,
                  functionName |-> Group(line, match, 2).str])

\* getPositionFromIndex; index is 0-based
getPositionFromIndex(content, index) ==
    LET lines == Split(SubSeq(content, 1, index))
    IN  [line |-> Len(lines) - 1, character |-> Len(lines[Len(lines)])]

\* functions.find(f => f.name === functionName)
FindByName(functions, functionName) ==
    IF \E i \in 1..Len(functions) : functions[i].name = functionName
    THEN Val(functions[CHOOSE i \in 1..Len(functions) :
                           /\ functions[i].name = functionName
                           /\ \A j \in 1..(i - 1) : functions[j].name # functionName])
    ELSE Null

\* provideHover once jsContent is read: the function the hover shows
HoverOf(jsContent, functionName) ==
    FindByName(parseJavaScriptFunctions(jsContent), functionName)

\* provideDefinition once jsContent is read: the position of the location
DefinitionOf(jsContent, functionName) ==
    LET funcMatch == Exec(jsContent, FunctionRegex(functionName), 0, 0)
    IN  IF ~funcMatch.ok THEN Null
        ELSE Val(getPositionFromIndex(jsContent, funcMatch.index - 1))

\* watcher.onDidChange(() => jsFileCache.delete(jsFilePath)) that deletes nothing
onDidChange_Keep(cache, jsFilePath) == cache

\* watcher.onDidChange(() => jsFileCache.delete(jsFilePath))
onDidChange(cache, jsFilePath) == [cache EXCEPT ![jsFilePath] = Null]

\* no request is under way
Idle == [pc |-> "idle"]

-----------------------------------------------------------------------------
(* The markup side as a state machine: a document is typed line by line,  *)
(* and the extension's functions are called on its text in any order.     *)

\* bound: the lines a document is typed to
MaxLines == 2

\* the lines that are typed
MarkupLines ==
    << <<"i", "m", "p", "o", "r", "t", " ", "\"", "a", ".", "j", "s", "\"", " ", "a", "s", " ", "A">>,
       <<"i", "m", "p", "o", "r", "t", " ", "\"", "b", ".", "j", "s", "\"", " ", "a", "s", " ", "B">>,
       <<"i", "m", "p", "o", "r", "t", " ", "\"", "b", ".", "j", "s", "\"", " ", "a", "s", " ", "A">>,
       <<"i", "m", "p", "o", "r", "t", " ", "\"", ".", "/", "u", "t", "i", "l", ".", "j", "s", "\"", " ", "a", "s", " ", "U", "t", "i", "l", "J", "S">>,
       <<"i", "m", "p", "o", "r", "t", " ", "Q", "t", "Q", "u", "i", "c", "k", " ", "2", ".", "0">>,
       <<"U", "t", ".", "f", "(", ")">> >>

\* the aliases that are looked up
QueryAliases == {<<"A">>, <<"U", "t", "i", "l", "J", "S">>}

NumLines(text) == Len(Split(text))

\* the cursor is at the end of the text, on an empty line
AtEmptyLine(text) == IF text = <<>> THEN TRUE ELSE text[Len(text)] = "\n"

NoCall == [op |-> "none"]

TypeLine(k) ==
    /\ AtEmptyLine(doc)
    /\ NumLines(doc) <= MaxLines
    /\ doc' = doc \o MarkupLines[k]
    /\ call' = NoCall
    /\ resolved' = Null
    /\ UNCHANGED <<lastIndex, js, jcall, files, jsFileCache, subscriptions, pending, request>>

NewLine ==
    /\ NumLines(doc) < MaxLines
    /\ doc' = doc \o <<"\n">>
    /\ call' = NoCall
    /\ resolved' = Null
    /\ UNCHANGED <<lastIndex, js, jcall, files, jsFileCache, subscriptions, pending, request>>

\* another, empty document takes the place of this one
CloseDocument ==
    /\ doc # <<>>
    /\ doc' = <<>>
    /\ call' = NoCall
    /\ resolved' = Null
    /\ UNCHANGED <<lastIndex, js, jcall, files, jsFileCache, subscriptions, pending, request>>

\* accepted: the alias of the suggestion whose acceptance the call follows
FindJavaScriptImports ==
    /\ call' = [op |-> "findJavaScriptImports",
                ret |-> findJavaScriptImports(doc, lastIndex),
                accepted |-> IF call.op = "acceptSuggestion" THEN Val(call.arg)
                             ELSE Null]
    /\ UNCHANGED <<doc, lastIndex, resolved, js, jcall, files, jsFileCache, subscriptions, pending, request>>

IsAliasImported(alias) ==
    /\ call' = [op |-> "isAliasImported", arg |-> alias,
                ret |-> isAliasImported(doc, alias, lastIndex)]
    /\ UNCHANGED <<doc, lastIndex, resolved, js, jcall, files, jsFileCache, subscriptions, pending, request>>

FindJsFileForAlias(alias) ==
    LET ret == findJsFileForAlias(doc, DocumentPath, alias, lastIndex)
    IN  /\ call' = [op |-> "findJsFileForAlias", arg |-> alias, ret |-> ret,
                    prior |-> resolved]
        /\ resolved' = Val([alias |-> alias, ret |-> ret])
        /\ UNCHANGED <<doc, lastIndex, js, jcall, files, jsFileCache, subscriptions, pending, request>>

GetLastQmlImportLine ==
    /\ call' = [op |-> "getLastQmlImportLine", ret |-> getLastQmlImportLine(doc)]
    /\ UNCHANGED <<doc, lastIndex, resolved, js, jcall, files, jsFileCache, subscriptions, pending, request>>

GetLastJsImportLine ==
    LET r == getLastJsImportLine(doc, lastIndex)
    IN  /\ call' = [op |-> "getLastJsImportLine", ret |-> r.line]
        /\ lastIndex' = r.lastIndex
        /\ UNCHANGED <<doc, resolved, js, jcall, files, jsFileCache, subscriptions, pending, request>>

GetJsImportInsertionPoint ==
    LET r == getJsImportInsertionPoint(doc, lastIndex)
    IN  /\ call' = [op |-> "getJsImportInsertionPoint", ret |-> r.point,
                    li |-> lastIndex]
        /\ lastIndex' = r.lastIndex
        /\ UNCHANGED <<doc, resolved, js, jcall, files, jsFileCache, subscriptions, pending, request>>

ProvideCompletionItems(ln) ==
    LET r == provideCompletionItems(doc, DocumentPath, ln, lastIndex)
    IN  /\ ln < NumLines(doc)
        /\ call' = [op |-> "provideCompletionItems", arg |-> ln, ret |-> r.items]
        /\ lastIndex' = r.lastIndex
        /\ UNCHANGED <<doc, resolved, js, jcall, files, jsFileCache, subscriptions, pending, request>>

ProvideCodeActions(ln) ==
    LET r == provideCodeActions(doc, DocumentPath, ln, lastIndex)
    IN  /\ ln < NumLines(doc)
        /\ call' = [op |-> "provideCodeActions", arg |-> ln, ret |-> r.items]
        /\ lastIndex' = r.lastIndex
        /\ UNCHANGED <<doc, resolved, js, jcall, files, jsFileCache, subscriptions, pending, request>>

\* the user accepts suggestion i of the list just offered: the editor applies
\* its edits to the document
AcceptSuggestion(i) ==
    /\ call.op \in {"provideCompletionItems", "provideCodeActions"}
    /\ i \in 1..Len(call.ret)
    /\ NumLines(doc) <= MaxLines
    /\ doc' = ApplyItem(doc, call.arg, call.ret[i])
    /\ call' = [op |-> "acceptSuggestion", arg |-> call.ret[i].alias]
    /\ resolved' = Null
    /\ UNCHANGED <<lastIndex, js, jcall, files, jsFileCache, subscriptions, pending, request>>

Init ==
    /\ doc = <<>>
    /\ lastIndex = 0
    /\ call = NoCall
    /\ resolved = Null
    /\ js = <<>>
    /\ jcall = NoCall
    /\ files = [p \in ScriptPaths |-> [mode |-> "file", version |-> 0]]
    /\ jsFileCache = [p \in ScriptPaths |-> Null]
    /\ subscriptions = <<>>
    /\ pending = [p \in ScriptPaths |-> 0]
    /\ request = Idle

\* the parser's functions called on the document as it is typed
Next ==
    \/ \E k \in 1..Len(MarkupLines) : TypeLine(k)
    \/ NewLine
    \/ CloseDocument
    \/ FindJavaScriptImports
    \/ \E a \in QueryAliases : IsAliasImported(a)
    \/ \E a \in QueryAliases : FindJsFileForAlias(a)
    \/ GetLastQmlImportLine
    \/ GetLastJsImportLine
    \/ GetJsImportInsertionPoint

Spec == Init /\ [][Next]_vars

\* the auto-import providers called on the document as it is typed, their
\* suggestions accepted, and the import extractor run on the outcome
NextAutoImport ==
    \/ \E k \in 1..Len(MarkupLines) : TypeLine(k)
    \/ NewLine
    \/ CloseDocument
    \/ \E ln \in 0..MaxLines : ProvideCompletionItems(ln)
    \/ \E ln \in 0..MaxLines : ProvideCodeActions(ln)
    \/ \E i \in 1..Len(WorkspaceFiles) : AcceptSuggestion(i)
    \/ FindJavaScriptImports

SpecAutoImport == Init /\ [][NextAutoImport]_vars

-----------------------------------------------------------------------------
(* The script side as a state machine: a script file is written fragment  *)
(* by fragment, and the function and documentation extractors are run on  *)
(* its text.  js is the sequence of the fragments written; the text is    *)
(* ScriptText(js).                                                         *)

\* bound: the fragments a script file is written to
MaxFragments == 3

\* the fragments, each a sequence of whole lines
Fragments ==
    << \* 1: a documentation block with a description, two @param tags and
       \*    two return tags
       << <<"/", "*", "*">>,
          <<" ", "*", " ", "A", "d", "d", "s", " ", "t", "w", "o", ".">>,
          <<" ", "*", " ", "@", "p", "a", "r", "a", "m", " ", "{", "s", "t", "r", "i", "n", "g", "}", " ", "x", " ", "-", " ", "t", "h", "e", " ", "x">>,
          <<" ", "*", " ", "@", "p", "a", "r", "a", "m", " ", "y">>,
          <<" ", "*", " ", "@", "r", "e", "t", "u", "r", "n", "s", " ", "{", "n", "u", "m", "b", "e", "r", "}", " ", "r", "e", "s", "u", "l", "t">>,
          <<" ", "*", " ", "@", "r", "e", "t", "u", "r", "n", " ", "{", "i", "n", "t", "}", " ", "o", "t", "h", "e", "r">>,
          <<" ", "*", "/">> >>,
       \* 2: a documentation block whose @param tag has a description
       \*    without a dash and whose first return tag has no type
       << <<"/", "*", "*">>,
          <<" ", "*", " ", "@", "p", "a", "r", "a", "m", " ", "{", "i", "n", "t", "}", " ", "n", " ", "c", "o", "u", "n", "t">>,
          <<" ", "*", " ", "@", "r", "e", "t", "u", "r", "n", " ", "r">>,
          <<" ", "*", " ", "@", "r", "e", "t", "u", "r", "n", "s", " ", "{", "b", "o", "o", "l", "}">>,
          <<" ", "*", "/">> >>,
       \* 3: a documentation block on one line
       << <<"/", "*", "*", " ", "@", "p", "a", "r", "a", "m", " ", "{", "s", "t", "r", "i", "n", "g", "}", " ", "x", " ", "*", "/">> >>,
       \* 4: a plain comment
       << <<"/", "*", " ", "@", "r", "e", "t", "u", "r", "n", "s", " ", "{", "i", "n", "t", "}", " ", "r", " ", "*", "/">> >>,
       \* 5: a blank line
       << <<" ", " ">> >>,
       \* 6: a top-level declaration
       << <<"f", "u", "n", "c", "t", "i", "o", "n", " ", "f", "(", " ", "x", ",", ",", " ", "y", " ", ",", ")", " ", "{", " ", "r", "e", "t", "u", "r", "n", " ", "x", ";", " ", "}">> >>,
       \* 7: declarations that are not at column 0
       << <<" ", " ", "f", "u", "n", "c", "t", "i", "o", "n", " ", "g", "(", "a", ")", " ", "{", "}">>,
          <<"v", "a", "r", " ", "h", " ", "=", " ", "f", "u", "n", "c", "t", "i", "o", "n", " ", "h", "(", "b", ")", " ", "{", "}">> >> >>

RECURSIVE ScriptLines(_)
ScriptLines(parts) ==
    IF parts = <<>> THEN <<>>
    ELSE Fragments[Head(parts)] \o ScriptLines(Tail(parts))

ScriptText(parts) == Join(ScriptLines(parts), <<"\n">>)

WriteFragment(f) ==
    /\ Len(js) < MaxFragments
    /\ js' = Append(js, f)
    /\ jcall' = NoCall
    /\ UNCHANGED <<doc, lastIndex, call, resolved, files, jsFileCache, subscriptions, pending, request>>

ParseJavaScriptFunctions ==
    /\ jcall' = [op |-> "parseJavaScriptFunctions",
                 ret |-> parseJavaScriptFunctions(ScriptText(js))]
    /\ UNCHANGED <<doc, lastIndex, call, resolved, js, files, jsFileCache, subscriptions, pending, request>>

\* extractJSDoc called as parseJavaScriptFunctions calls it: on the index of
\* a line the declaration pattern matches
ExtractJSDoc(i) ==
    /\ Test(ScriptLines(js)[i + 1], FUNCTION_DECLARATION)
    /\ jcall' = [op |-> "extractJSDoc", arg |-> i,
                 ret |-> extractJSDoc(ScriptLines(js), i)]
    /\ UNCHANGED <<doc, lastIndex, call, resolved, js, files, jsFileCache, subscriptions, pending, request>>

NextScript ==
    \/ \E f \in 1..Len(Fragments) : WriteFragment(f)
    \/ ParseJavaScriptFunctions
    \/ \E i \in 0..(Len(ScriptLines(js)) - 1) : ExtractJSDoc(i)

SpecScript == Init /\ [][NextScript]_vars

-----------------------------------------------------------------------------
(* Import planning as a state machine: a document of import lines, blank  *)
(* lines and other lines is typed and the planner is called on it; in the  *)
(* second specification the two auto-import providers are called and a    *)
(* suggestion offered is accepted.                                        *)

\* bound: the lines a document is typed to
MaxPlanLines == 3

\* the import lines that are typed: a script import and an ordinary import
ImportLines == { <<"i", "m", "p", "o", "r", "t", " ", "\"", "a", ".", "j", "s", "\"", " ", "a", "s", " ", "A">>, <<"i", "m", "p", "o", "r", "t", " ", "Q", "t", "Q", "u", "i", "c", "k", " ", "2", ".", "0">> }

\* the further lines typed before the planner is called: a second script
\* import, content, and spaces only
OtherLines == { <<"i", "m", "p", "o", "r", "t", " ", "\"", "b", ".", "j", "s", "\"", " ", "a", "s", " ", "B">>, <<"I", "t", "e", "m", " ", "{", "}">>, <<" ", " ">> }

\* the lines that use an identifier not imported yet
UseLines == { <<"U", "t", ".", "f", "(", ")">>, <<"U", ".", "f", "(", ")">> }

TypePlanLine(line) ==
    /\ AtEmptyLine(doc)
    /\ NumLines(doc) <= MaxPlanLines
    /\ doc' = doc \o line
    /\ call' = NoCall
    /\ UNCHANGED <<lastIndex, resolved, js, jcall, files, jsFileCache, subscriptions, pending, request>>

PlanNewLine ==
    /\ NumLines(doc) < MaxPlanLines
    /\ doc' = doc \o <<"\n">>
    /\ call' = NoCall
    /\ UNCHANGED <<lastIndex, resolved, js, jcall, files, jsFileCache, subscriptions, pending, request>>

\* the user accepts suggestion i of the list just offered: the editor applies
\* its edits to the document; before is the text the list was computed for
AcceptPlanned(i) ==
    /\ call.op \in {"provideCompletionItems", "provideCodeActions"}
    /\ i \in 1..Len(call.ret)
    /\ NumLines(doc) <= MaxPlanLines
    /\ doc' = ApplyItem(doc, call.arg, call.ret[i])
    /\ call' = [op |-> "acceptPlanned", arg |-> call.ret[i].alias,
                item |-> call.ret[i], before |-> doc]
    /\ UNCHANGED <<lastIndex, resolved, js, jcall, files, jsFileCache, subscriptions, pending, request>>

NextPlanning ==
    \/ \E line \in ImportLines \cup OtherLines : TypePlanLine(line)
    \/ PlanNewLine
    \/ GetLastQmlImportLine
    \/ GetLastJsImportLine
    \/ GetJsImportInsertionPoint

SpecPlanning == Init /\ [][NextPlanning]_vars

NextSplice ==
    \/ \E line \in ImportLines \cup UseLines : TypePlanLine(line)
    \/ PlanNewLine
    \/ \E ln \in 0..MaxPlanLines : ProvideCompletionItems(ln)
    \/ \E ln \in 0..MaxPlanLines : ProvideCodeActions(ln)
    \/ \E i \in 1..Len(WorkspaceFiles) : AcceptPlanned(i)

SpecSplice == Init /\ [][NextSplice]_vars

-----------------------------------------------------------------------------
(* Alias generation and file matching as a state machine: the two         *)
(* functions are called on file names built from segments and on          *)
(* identifiers that are prefixes of aliases, in any letter case.          *)

\* bound: the segments of a file name
MaxSegments == 2

\* the segments file names are built from, and the separators between them
Segments == << <<"a", "c", "c", "o", "u", "n", "t">>, <<"h", "e", "l", "p", "e", "r">>, <<"u", "t", "i", "l">> >>
Separators == {"-", "_"}

\* the file name of the segments segs (indexes of Segments) joined by seps
RECURSIVE FilenameOf(_, _)
FilenameOf(segs, seps) ==
    IF Len(segs) = 1 THEN Segments[segs[1]] \o <<".", "j", "s">>
    ELSE Segments[segs[1]] \o <<seps[1]>> \o FilenameOf(Tail(segs), Tail(seps))

\* the aliases of the workspace files as typed: exact, lower and upper case
TypedAliases ==
    { <<"U", "t", "i", "l", "J", "S">>, <<"A", "c", "c", "o", "u", "n", "t", "H", "e", "l", "p", "e", "r", "J", "S">>, <<"U", "t", "i", "l", "H", "e", "l", "p", "e", "r", "J", "S">>, <<"D", "b", "J", "S">>,
      <<"u", "t", "i", "l", "j", "s">>, <<"a", "c", "c", "o", "u", "n", "t", "h", "e", "l", "p", "e", "r", "j", "s">>, <<"u", "t", "i", "l", "h", "e", "l", "p", "e", "r", "j", "s">>, <<"d", "b", "j", "s">>,
      <<"U", "T", "I", "L", "J", "S">>, <<"A", "C", "C", "O", "U", "N", "T", "H", "E", "L", "P", "E", "R", "J", "S">>, <<"U", "T", "I", "L", "H", "E", "L", "P", "E", "R", "J", "S">>, <<"D", "B", "J", "S">> }

\* the identifiers files are matched against: what is typed of an alias so
\* far, and two identifiers that no alias starts with
Identifiers ==
    {SubSeq(a, 1, n) : <<a, n>> \in {<<b, k>> \in TypedAliases \X (1..15) : k <= Len(b)}}
    \cup { <<"U", "t", "x">>, <<"J", "S">> }

GenerateAliasFromFilename(segs, seps) ==
    /\ call' = [op |-> "generateAliasFromFilename",
                arg |-> FilenameOf(segs, seps),
                parts |-> segs,
                ret |-> generateAliasFromFilename(FilenameOf(segs, seps))]
    /\ UNCHANGED <<doc, lastIndex, resolved, js, jcall, files, jsFileCache, subscriptions, pending, request>>

\* the documents an import is suggested for
DocumentPaths == { DocumentPath, <<<<"w">>, <<"l", "i", "b">>, <<"M", "a", "i", "n", ".", "q", "m", "l">>>> }

FindMatchingJsFiles(partialIdentifier, documentPath) ==
    /\ call' = [op |-> "findMatchingJsFiles", arg |-> partialIdentifier,
                from |-> documentPath,
                ret |-> findMatchingJsFiles(partialIdentifier, documentPath)]
    /\ UNCHANGED <<doc, lastIndex, resolved, js, jcall, files, jsFileCache, subscriptions, pending, request>>

NextAlias ==
    \/ \E n \in 1..MaxSegments :
           \E segs \in [1..n -> 1..Len(Segments)] :
               \E seps \in [1..(n - 1) -> Separators] :
                   GenerateAliasFromFilename(segs, seps)
    \/ \E partialIdentifier \in Identifiers :
           \E documentPath \in DocumentPaths :
               FindMatchingJsFiles(partialIdentifier, documentPath)

SpecAlias == Init /\ [][NextAlias]_vars

-----------------------------------------------------------------------------
(* The session as a state machine: a document that imports a script is    *)
(* open; completion, hover and definition are requested on its lines      *)
(* while the script file is rewritten, removed and restored by other      *)
(* processes and the watchers deliver their change events.  A request is  *)
(* one turn of the extension host: no other request and no watcher        *)
(* callback runs inside it, but the file system changes between its       *)
(* calls of fs and of createFileSystemWatcher.                            *)

\* bound: the times a script file is rewritten
MaxWrites == 1

\* the open document
SessionDocument == <<"i", "m", "p", "o", "r", "t", " ", "\"", "a", ".", "j", "s", "\"", " ", "a", "s", " ", "A", "\n", "A", ".", "f", "(", ")", "\n", "A", ".", "g", "(", ")">>

RequestOps == {"provideCompletionItems", "provideHover", "provideDefinition"}

\* the watchers registered for jsFilePath
Watchers(jsFilePath) ==
    Cardinality({i \in 1..Len(subscriptions) : subscriptions[i].path = jsFilePath})

\* the alias and the function name a request on line is about
Target(op, line) ==
    IF op = "provideCompletionItems"
    THEN IF DotAlias(line).null THEN Null
         ELSE Val([alias |-> DotAlias(line).val, functionName |-> <<>>])
    ELSE extractAliasAndFunction(line)

\* the record of a request that has returned ret
Returned(r, ret) ==
    [op |-> r.op, arg |-> r.arg, after |-> r.after, path |-> r.path,
     source |-> r.source, began |-> r.began, ended |-> r.ended,
     read |-> r.read, at |-> r.at, ret |-> ret]

\* another process rewrites the file: every watcher of the path is notified
WriteFile(p) ==
    /\ files[p].mode = "file"
    /\ files[p].version < MaxWrites
    /\ files' = [files EXCEPT ![p].version = @ + 1]
    /\ pending' = [pending EXCEPT ![p] = @ + Watchers(p)]
    /\ UNCHANGED <<doc, lastIndex, call, resolved, js, jcall,
                   jsFileCache, subscriptions, request>>

\* another process removes the file, restores it or makes it unreadable:
\* no change event
SetMode(p, mode) ==
    /\ files[p].mode # mode
    /\ files' = [files EXCEPT ![p].mode = mode]
    /\ UNCHANGED <<doc, lastIndex, call, resolved, js, jcall,
                   jsFileCache, subscriptions, pending, request>>

\* a watcher of p delivers a change event
DeliverChange(p) ==
    /\ request = Idle
    /\ pending[p] > 0
    /\ pending' = [pending EXCEPT ![p] = @ - 1]
    /\ jsFileCache' = onDidChange(jsFileCache, p)
    /\ call' = [op |-> "onDidChange", path |-> p]
    /\ UNCHANGED <<doc, lastIndex, resolved, js, jcall, files, subscriptions, request>>

\* a request on line ln, up to the return of fs.existsSync
BeginRequest(op, ln) ==
    /\ request = Idle
    /\ ln < NumLines(doc)
    /\ LET target == Target(op, Split(doc)[ln + 1])
           jsFilePath == IF target.null THEN Null
                         ELSE findJsFileForAlias(doc, DocumentPath, target.val.alias,
                                                 lastIndex)
           r == [op |-> op, arg |-> ln, after |-> (call.op = "onDidChange"), path |-> jsFilePath,
                 source |-> "none", began |-> "none", ended |-> "none",
                 read |-> Null, at |-> 0]
       IN  IF jsFilePath.null
           THEN /\ call' = Returned(r, Null)
                /\ request' = Idle
           ELSE LET p == jsFilePath.val
                    s == [r EXCEPT !.began = files[p].mode, !.ended = files[p].mode]
                IN  IF op = "provideCompletionItems" /\ ~jsFileCache[p].null
                    THEN /\ call' = Returned([s EXCEPT !.source = "cache"], jsFileCache[p])
                         /\ request' = Idle
                    ELSE IF ~ExistsSync(files, p)
                    THEN /\ call' = Returned([s EXCEPT !.source = "disk"], Null)
                         /\ request' = Idle
                    ELSE /\ request' = [s EXCEPT !.source = "disk"] @@ [pc |-> "checked"]
                         /\ call' = NoCall
    /\ UNCHANGED <<doc, lastIndex, resolved, js, jcall,
                   files, jsFileCache, subscriptions, pending>>

\* fs.readFileSync of the request, and what the provider does with the text
ReadFile ==
    /\ request.pc = "checked"
    /\ LET p == request.path.val
           jsContent == Caught(ReadFileSync(files, p))
           r == [request EXCEPT !.read = jsContent, !.ended = files[p].mode,
                                !.at = files[p].version]
           functionName == Target(r.op, Split(doc)[r.arg + 1]).val.functionName
       IN  IF NoContent(jsContent)
           THEN /\ call' = Returned(r, Null)
                /\ request' = Idle
           ELSE IF r.op = "provideHover"
           THEN /\ call' = Returned(r, HoverOf(jsContent.val, functionName))
                /\ request' = Idle
           ELSE IF r.op = "provideDefinition"
           THEN /\ call' = Returned(r, DefinitionOf(jsContent.val, functionName))
                /\ request' = Idle
           ELSE /\ request' = [r EXCEPT !.pc = "read"]
                /\ call' = call
    /\ UNCHANGED <<doc, lastIndex, resolved, js, jcall,
                   files, jsFileCache, subscriptions, pending>>

\* jsFileCache.set(jsFilePath, parseJavaScriptFunctions(jsContent))
StoreFunctions ==
    /\ request.pc = "read"
    /\ jsFileCache' = [jsFileCache EXCEPT ![request.path.val] =
                           Val(parseJavaScriptFunctions(request.read.val))]
    /\ request' = [request EXCEPT !.pc = "stored"]
    /\ UNCHANGED <<doc, lastIndex, call, resolved, js, jcall,
                   files, subscriptions, pending>>

\* createFileSystemWatcher, context.subscriptions.push, and the return
RegisterWatcher ==
    /\ request.pc = "stored"
    /\ subscriptions' = Append(subscriptions, [path |-> request.path.val])
    /\ call' = Returned(request, jsFileCache[request.path.val])
    /\ request' = Idle
    /\ UNCHANGED <<doc, lastIndex, resolved, js, jcall, files, jsFileCache, pending>>

InitSession ==
    /\ doc = SessionDocument
    /\ lastIndex = 0
    /\ call = NoCall
    /\ resolved = Null
    /\ js = <<>>
    /\ jcall = NoCall
    /\ files = [p \in ScriptPaths |-> [mode |-> "file", version |-> 0]]
    /\ jsFileCache = [p \in ScriptPaths |-> Null]
    /\ subscriptions = <<>>
    /\ pending = [p \in ScriptPaths |-> 0]
    /\ request = Idle

NextSession ==
    \/ \E op \in RequestOps : \E ln \in 0..2 : BeginRequest(op, ln)
    \/ ReadFile
    \/ StoreFunctions
    \/ RegisterWatcher
    \/ \E p \in ScriptPaths : WriteFile(p)
    \/ \E p \in ScriptPaths : \E mode \in {"absent", "file", "locked"} : SetMode(p, mode)
    \/ \E p \in ScriptPaths : DeliverChange(p)

SpecSession == InitSession /\ [][NextSession]_vars

-----------------------------------------------------------------------------
(* providers/reference.ts: the usages of a function of a script in the    *)
(* markup files of the workspace                                          *)

MAX_QML_FILES_TO_SEARCH == 1000

\* the script whose function is searched for
ScriptDocument ==
    [fileName |-> <<<<"w">>, <<"a", ".", "j", "s">>>>,
     text |-> <<"f", "u", "n", "c", "t", "i", "o", "n", " ", "f", "(", ")", " ", "{", "}", "\n", "v", "a", "r", " ", "g", " ", "=", " ", "f">> ]

\* the markup files of the workspace, in the order findFiles lists them
QmlFiles ==
    << [fsPath |-> <<<<"w">>, <<"M", "a", "i", "n", ".", "q", "m", "l">>>>,
        text |-> <<"i", "m", "p", "o", "r", "t", " ", "\"", "a", ".", "j", "s", "\"", " ", "a", "s", " ", "A", "\n", "A", ".", "f", "(", ")", " ", "+", " ", "A", ".", "f", "2", "(", "A", ".", "f", "(", ")", ")">> ],
       [fsPath |-> <<<<"w">>, <<"T", "w", "o", ".", "q", "m", "l">>>>,
        text |-> <<"i", "m", "p", "o", "r", "t", " ", "\"", "a", ".", "j", "s", "\"", " ", "a", "s", " ", "A", "\n", "i", "m", "p", "o", "r", "t", " ", "\"", "a", ".", "j", "s", "\"", " ", "a", "s", " ", "B", "\n", "B", ".", "f", "(", ")", "\n", "A", ".", "f", "(", ")">> ],
       [fsPath |-> <<<<"w">>, <<"O", "t", "h", "e", "r", ".", "q", "m", "l">>>>,
        text |-> <<"i", "m", "p", "o", "r", "t", " ", "\"", "b", ".", "j", "s", "\"", " ", "a", "s", " ", "A", "\n", "A", ".", "f", "(", ")">> ],
       [fsPath |-> <<<<"w">>, <<"u", "i">>, <<"P", "a", "g", "e", ".", "q", "m", "l">>>>,
        text |-> <<"i", "m", "p", "o", "r", "t", " ", "\"", ".", ".", "/", "a", ".", "j", "s", "\"", " ", "a", "s", " ", "L", "i", "b", "\n", "x", ":", " ", "L", "i", "b", ".", "f", "(", ")">> ] >>

\* vscode.workspace.findFiles('**/*.qml', exclude, MAX_QML_FILES_TO_SEARCH)
FindQmlFiles == SubSeq(QmlFiles, 1, Min(Len(QmlFiles), MAX_QML_FILES_TO_SEARCH))

\* document.getWordRangeAtPosition(position): the word that holds column
\* character of line or ends there, or Null
RECURSIVE WordStart(_, _)
WordStart(line, character) ==
    IF character > 0 /\ In(line[character], WordC)
    THEN WordStart(line, character - 1)
    ELSE character

getWordRangeAtPosition(line, character) ==
    IF Run(line, WordStart(line, character) + 1, WordC) = 0 THEN Null
    ELSE Val([start |-> WordStart(line, character),
              end |-> WordStart(line, character)
                        + Run(line, WordStart(line, character) + 1, WordC)])

\* new RegExp(`${alias}\\.${functionName}\\b`, 'g'); functionName ends in a
\* word character, so \b stands where no word character follows
UsageRegex(alias, functionName) ==
    LitSeq(alias) \o <<Lit(".")>> \o LitSeq(functionName) \o <<NLook(<<Chr(WordC)>>)>>

\* imports.find(imp => resolveJsFilePath(qmlFile.fsPath, imp.file) === fileName)
FindRelevant(imports, fsPath, fileName) ==
    IF \E i \in 1..Len(imports) : resolveJsFilePath(fsPath, imports[i].file) = fileName
    THEN Val(imports[CHOOSE i \in 1..Len(imports) :
                 /\ resolveJsFilePath(fsPath, imports[i].file) = fileName
                 /\ \A j \in 1..(i - 1) :
                        resolveJsFilePath(fsPath, imports[j].file) # fileName])
    ELSE Null

\* the locations pushed for the matches of the pattern in one line
LineLocations(fsPath, lineIndex, matches, alias) ==
    [k \in 1..Len(matches) |->
        [uri |-> fsPath, line |-> lineIndex,
         start |-> (matches[k].index - 1) + Len(alias) + 1,
         end |-> matches[k].end - 1]]

\* lines.forEach((lineText, lineIndex) => { while (usageRegex.exec(lineText)) ... })
RECURSIVE UsagesFrom(_, _, _, _, _)
UsagesFrom(fsPath, lines, lineIndex, alias, functionName) ==
    IF lineIndex >= Len(lines) THEN <<>>
    ELSE LineLocations(fsPath, lineIndex,
                       MatchAll(lines[lineIndex + 1], UsageRegex(alias, functionName),
                                0, 0),
                       alias)
         \o UsagesFrom(fsPath, lines, lineIndex + 1, alias, functionName)

\* the body of the try block for one markup file that was opened
UsagesIn(qmlFile, fileName, functionName, li) ==
    LET imports == findJavaScriptImports(qmlFile.text, li)
        relevantImport == FindRelevant(imports, qmlFile.fsPath, fileName)
    IN  IF relevantImport.null THEN <<>>
        ELSE UsagesFrom(qmlFile.fsPath, Split(qmlFile.text), 0,
                        relevantImport.val.alias, functionName)

\* a catch that loses the locations collected so far
Attempted_Lost(locations, threw, found) ==
    IF threw THEN <<>> ELSE locations \o found

\* try { ... locations.push(...) } catch (error) { console.error(...) }
Attempted(locations, threw, found) ==
    IF threw THEN locations ELSE locations \o found

\* for (const qmlFile of qmlFiles): failing holds the places of the files
\* that openTextDocument cannot open
RECURSIVE SearchLoop(_, _, _, _, _, _, _)
SearchLoop(qmlFiles, i, failing, fileName, functionName, li, locations) ==
    IF i > Len(qmlFiles) THEN locations
    ELSE SearchLoop(qmlFiles, i + 1, failing, fileName, functionName, li,
                    Attempted(locations, i \in failing,
                              IF i \in failing THEN <<>>
                              ELSE UsagesIn(qmlFiles[i], fileName, functionName, li)))

provideReferences(document, position, failing, li) ==
    LET line == Split(document.text)[position.line + 1]
        wordRange == getWordRangeAtPosition(line, position.character)
        functionName == SubSeq(line, wordRange.val.start + 1, wordRange.val.end)
    IN  IF wordRange.null THEN Null
        ELSE IF ~Test(line, FunctionRegex(functionName)) THEN Null
        ELSE Val(SearchLoop(FindQmlFiles, 1, failing, document.fileName,
                            functionName, li, <<>>))

\* the positions references are asked at
Positions ==
    { [line |-> 0, character |-> 0], [line |-> 0, character |-> 9],
      [line |-> 0, character |-> 10], [line |-> 0, character |-> 11],
      [line |-> 1, character |-> 4], [line |-> 1, character |-> 9] }

ProvideReferences(position, failing) ==
    /\ call' = [op |-> "provideReferences", arg |-> position, failing |-> failing,
                li |-> lastIndex,
                ret |-> provideReferences(ScriptDocument, position, failing, lastIndex)]
    /\ UNCHANGED <<doc, lastIndex, resolved, js, jcall,
                   files, jsFileCache, subscriptions, pending, request>>

NextReferences ==
    \/ \E position \in Positions : \E failing \in SUBSET (1..Len(QmlFiles)) :
           ProvideReferences(position, failing)
    \/ GetJsImportInsertionPoint

\* a markup document that ends in a script import is open
InitReferences ==
    /\ doc = <<"i", "m", "p", "o", "r", "t", " ", "\"", "a", ".", "j", "s", "\"", " ", "a", "s", " ", "A">>
    /\ lastIndex = 0
    /\ call = NoCall
    /\ resolved = Null
    /\ js = <<>>
    /\ jcall = NoCall
    /\ files = [p \in ScriptPaths |-> [mode |-> "file", version |-> 0]]
    /\ jsFileCache = [p \in ScriptPaths |-> Null]
    /\ subscriptions = <<>>
    /\ pending = [p \in ScriptPaths |-> 0]
    /\ request = Idle

SpecReferences == InitReferences /\ [][NextReferences]_vars

-----------------------------------------------------------------------------
(* What the lines and fragments written are meant to yield, read off the  *)
(* text itself and not computed by the patterns.                          *)

\* the script import each markup line declares, if any
MarkupImports ==
    << <<[file |-> <<"a", ".", "j", "s">>, alias |-> <<"A">>]>>,
       <<[file |-> <<"b", ".", "j", "s">>, alias |-> <<"B">>]>>,
       <<[file |-> <<"b", ".", "j", "s">>, alias |-> <<"A">>]>>,
       <<[file |-> <<".", "/", "u", "t", "i", "l", ".", "j", "s">>, alias |-> <<"U", "t", "i", "l", "J", "S">>]>>,
       <<>>,
       <<>> >>

\* the file each import path denotes from the directory of DocumentPath
DenotedFile(file) ==
    CASE file = <<"a", ".", "j", "s">> -> <<<<"w">>, <<"a", ".", "j", "s">>>>
      [] file = <<"b", ".", "j", "s">> -> <<<<"w">>, <<"b", ".", "j", "s">>>>
      [] file = <<".", "/", "u", "t", "i", "l", ".", "j", "s">> -> <<<<"w">>, <<"u", "t", "i", "l", ".", "j", "s">>>>

IsTyped(line) == line = <<>> \/ \E k \in 1..Len(MarkupLines) : MarkupLines[k] = line

ImportsOfLine(line) ==
    IF line = <<>> THEN <<>>
    ELSE MarkupImports[CHOOSE k \in 1..Len(MarkupLines) : MarkupLines[k] = line]

RECURSIVE ImportsOfLines(_)
ImportsOfLines(lines) ==
    IF lines = <<>> THEN <<>>
    ELSE ImportsOfLine(Head(lines)) \o ImportsOfLines(Tail(lines))

\* the imports a typed document declares, in document order
DeclaredImports(text) == ImportsOfLines(Split(text))

AllTyped(text) == \A i \in 1..NumLines(text) : IsTyped(Split(text)[i])

\* how many imports of a list carry the alias
CountAlias(imports, alias) ==
    Cardinality({i \in 1..Len(imports) : imports[i].alias = alias})

\* the documentation blocks among the fragments, and what each documents
DocBlocks == {1, 2, 3}
BlankFragments == {5}
FunctionFragments == {6}

DocumentedParams(f) ==
    CASE f = 1 -> <<[type |-> <<"s", "t", "r", "i", "n", "g">>, name |-> <<"x">>, description |-> <<"t", "h", "e", " ", "x">>],
                    [type |-> <<"a", "n", "y">>, name |-> <<"y">>, description |-> <<>>]>>
      [] f = 2 -> <<[type |-> <<"i", "n", "t">>, name |-> <<"n">>, description |-> <<>>]>>
      [] f = 3 -> <<[type |-> <<"s", "t", "r", "i", "n", "g">>, name |-> <<"x">>, description |-> <<>>]>>

DocumentedReturn(f) ==
    CASE f = 1 -> <<"n", "u", "m", "b", "e", "r">>
      [] f = 2 -> <<"a", "n", "y">>
      [] f = 3 -> <<"a", "n", "y">>

DeclaredFunction(f) ==
    CASE f = 6 -> [name |-> <<"f">>, params |-> <<<<"x">>, <<"y">>>>]

\* the positions in js of the top-level declarations, in file order
RECURSIVE DeclaredAt(_, _)
DeclaredAt(parts, p) ==
    IF p > Len(parts) THEN <<>>
    ELSE (IF parts[p] \in FunctionFragments THEN <<p>> ELSE <<>>)
         \o DeclaredAt(parts, p + 1)

\* the index of the first line of fragment p, 0-based
FirstLine(parts, p) == Len(ScriptLines(SubSeq(parts, 1, p - 1)))

\* the fragment that the line of index i begins
PartAtLine(parts, i) == CHOOSE p \in 1..Len(parts) : FirstLine(parts, p) = i

\* a documentation block ends on the line just above fragment p
HasAdjacentBlock(parts, p) == p > 1 /\ parts[p - 1] \in DocBlocks

IsDefaultDoc(r) ==
    r.documentation = <<>> /\ r.returnType = <<"a", "n", "y">> /\ r.paramDocs = <<>>

-----------------------------------------------------------------------------
(* What a typed document says, read off its lines without a pattern *)

\* a line that declares a script import / an import of another kind
IsScriptImportLine(line) == StartsWith(line, <<"i", "m", "p", "o", "r", "t", " ", "\"">>)
IsOrdinaryImportLine(line) == StartsWith(line, <<"i", "m", "p", "o", "r", "t", " ">>) /\ ~IsScriptImportLine(line)

\* the 0-based indexes of the lines of either kind
ScriptImportLines(lines) == {i \in 0..(Len(lines) - 1) : IsScriptImportLine(lines[i + 1])}
OrdinaryImportLines(lines) == {i \in 0..(Len(lines) - 1) : IsOrdinaryImportLine(lines[i + 1])}

\* the largest index of a set of line indexes
LastOf(indexes) == CHOOSE i \in indexes : \A j \in indexes : j <= i

\* line n exists and holds nothing but white space
BlankLineAt(lines, n) == n < Len(lines) /\ Range(lines[n + 1]) \subseteq SpaceChars

\* the import line a suggestion inserts, without the line breaks around it
ImportLineOf(item) ==
    SubSeq(item.text,
           IF item.text[1] = "\n" THEN 2 ELSE 1,
           IF item.text[Len(item.text) - 1] = "\n" THEN Len(item.text) - 2
           ELSE Len(item.text) - 1)

\* the 0-based indexes of the lines that end with the import line of item
NewImportLines(lines, item) ==
    {i \in 0..(Len(lines) - 1) :
        /\ Len(lines[i + 1]) >= Len(ImportLineOf(item))
        /\ SubSeq(lines[i + 1], Len(lines[i + 1]) - Len(ImportLineOf(item)) + 1,
                  Len(lines[i + 1])) = ImportLineOf(item)}

\* some script-import line of lines binds alias
AliasBound(lines, alias) ==
    \E i \in ScriptImportLines(lines) :
        /\ Len(lines[i + 1]) >= Len(alias) + 5
        /\ SubSeq(lines[i + 1], Len(lines[i + 1]) - Len(alias) - 4, Len(lines[i + 1]))
               = <<"\"", " ", "a", "s", " ">> \o alias

\* the segments of file names with the first letter in upper case
Capitalized == << <<"A", "c", "c", "o", "u", "n", "t">>, <<"H", "e", "l", "p", "e", "r">>, <<"U", "t", "i", "l">> >>

\* the alias of a file name built from the segments segs
RECURSIVE AliasOfSegments(_)
AliasOfSegments(segs) ==
    IF segs = <<>> THEN <<"J", "S">>
    ELSE Capitalized[Head(segs)] \o AliasOfSegments(Tail(segs))

\* the aliases of the workspace files, in the order of WorkspaceFiles
WorkspaceAliases == << <<"U", "t", "i", "l", "J", "S">>, <<"A", "c", "c", "o", "u", "n", "t", "H", "e", "l", "p", "e", "r", "J", "S">>, <<"U", "t", "i", "l", "H", "e", "l", "p", "e", "r", "J", "S">>, <<"D", "b", "J", "S">> >>

\* a and b are the same letter in either case, or the same character
SameLetter(a, b) ==
    \/ a = b
    \/ \E i \in 1..Len(Lower) : {a, b} = {Lower[i], Upper[i]}

\* alias starts with identifier when the case of letters is ignored
TypedOf(identifier, alias) ==
    /\ Len(identifier) <= Len(alias)
    /\ \A i \in 1..Len(identifier) : SameLetter(identifier[i], alias[i])

\* the indexes of the workspace files whose alias identifier starts, in order
FilesTyped(identifier) ==
    LET typed(i) == TypedOf(identifier, WorkspaceAliases[i])
    IN  SelectSeq([i \in 1..Len(WorkspaceFiles) |-> i], typed)


\* the lines of content that declare functionName at the left margin
DeclarationLines(content, functionName) ==
    {i \in 1..Len(Split(content)) :
        StartsWith(Split(content)[i], <<"f", "u", "n", "c", "t", "i", "o", "n", " ">> \o functionName \o <<"(">>)}

LeastOf(set) == CHOOSE i \in set : \A j \in set : i <= j

\* the name under the cursor of a request on line ln of the session document
NameOnLine(ln) == 
    IF ln = 1 THEN <<"f">> ELSE IF ln = 2 THEN <<"g">> ELSE <<"j", "s">>

\* the aliases under which the lines of a markup file import the script
\* a.js of the directory w, for a file of w (dir = 0) or of w/ui (dir = 1)
AliasesOfScript(lines, dir) ==
    {alias \in {<<"A">>, <<"B">>, <<"L", "i", "b">>} :
        \E i \in 1..Len(lines) :
            lines[i] = (IF dir = 0 THEN <<"i", "m", "p", "o", "r", "t", " ", "\"", "a", ".", "j", "s", "\"", " ", "a", "s", " ">> ELSE <<"i", "m", "p", "o", "r", "t", " ", "\"", ".", ".", "/", "a", ".", "j", "s", "\"", " ", "a", "s", " ">>)
                       \o alias}

DirOf(i) == IF Len(QmlFiles[i].fsPath) = 2 THEN 0 ELSE 1

\* the usages alias.name of a line: the columns where the name starts
UsageColumns(line, alias, name) ==
    {c \in 0..Len(line) :
        /\ c >= Len(alias) + 1
        /\ c + Len(name) <= Len(line)
        /\ SubSeq(line, c - Len(alias), c + Len(name)) = alias \o <<".">> \o name
        /\ (c + Len(name) < Len(line) => line[c + Len(name) + 1] \notin WordChars)}

\* the search over the files of QmlFiles outside failing, all of them opened
\* (SearchLoop over the files that are left)
RECURSIVE Others(_, _)
Others(i, failing) ==
    IF i > Len(QmlFiles) THEN <<>>
    ELSE (IF i \in failing THEN <<>> ELSE <<QmlFiles[i]>>) \o Others(i + 1, failing)
-----------------------------------------------------------------------------
(* Properties *)

\* C1: import extraction is stateless: whatever calls came before, a call of
\* findJavaScriptImports returns what a call on the same text returns when
\* the shared pattern is fresh (lastIndex 0).
C1_ExtractionIsStateless ==
    call.op = "findJavaScriptImports" => call.ret = findJavaScriptImports(doc, 0)

\* C2: findJavaScriptImports returns exactly one Import per import line of
\* the text, in document order, duplicates kept, and nothing for a text
\* without script imports.
C2_OneImportPerOccurrence ==
    (call.op = "findJavaScriptImports" /\ AllTyped(doc))
        => call.ret = DeclaredImports(doc)

\* the first declared import with the alias, resolved, or Null
FirstDeclaredFile(text, alias) ==
    LET imports == DeclaredImports(text)
    IN  IF CountAlias(imports, alias) = 0 THEN Null
        ELSE Val(DenotedFile(
                 imports[CHOOSE i \in 1..Len(imports) :
                             /\ imports[i].alias = alias
                             /\ \A j \in 1..(i - 1) : imports[j].alias # alias].file))

\* C3: findJsFileForAlias returns the file of the first import, in document
\* order, that carries the alias, resolved against the document's directory,
\* and Null when no import carries it.
C3_FirstImportOfAliasWins ==
    (call.op = "findJsFileForAlias" /\ AllTyped(doc))
        => call.ret = FirstDeclaredFile(doc, call.arg)

\* C4: resolving the same alias twice against an unchanged text yields the
\* same path, whatever calls ran between the two resolutions.
C4_ResolutionIsIdempotent ==
    (call.op = "findJsFileForAlias" /\ ~call.prior.null
        /\ call.prior.val.alias = call.arg)
        => call.ret = call.prior.val.ret

\* C5: extractJSDoc returns the all-default result whenever no documentation
\* block ends on the line just above the declaration.
C5_DefaultWithoutAdjacentBlock ==
    (jcall.op = "extractJSDoc"
        /\ ~HasAdjacentBlock(js, PartAtLine(js, jcall.arg)))
        => IsDefaultDoc(jcall.ret)

C7_OneParamDocPerTag ==
    jcall.op = "parseJavaScriptFunctions" =>
        LET at == DeclaredAt(js, 1)
        IN  \A k \in 1..Len(jcall.ret) :
                (k <= Len(at) /\ HasAdjacentBlock(js, at[k]))
                    => jcall.ret[k].paramDocs = DocumentedParams(js[at[k] - 1])

\* C8: returnType is never empty; for a function with a documentation block
\* it is the type of the block's first @returns or @return tag, and "any"
\* when the block has no such tag or the tag has no type.
C8_ReturnTypeOfFirstTag ==
    jcall.op = "parseJavaScriptFunctions" =>
        LET at == DeclaredAt(js, 1)
        IN  \A k \in 1..Len(jcall.ret) :
                /\ jcall.ret[k].returnType # <<>>
                /\ (k <= Len(at) /\ HasAdjacentBlock(js, at[k]))
                       => jcall.ret[k].returnType = DocumentedReturn(js[at[k] - 1])

C8_Witness ==
    /\ jcall.op = "parseJavaScriptFunctions"
    /\ js = <<1, 6, 2>>
    /\ Len(jcall.ret) = 1
    /\ jcall.ret[1].returnType = <<"n", "u", "m", "b", "e", "r">>

C10_RoundTrip ==
    (call.op = "findJavaScriptImports" /\ ~call.accepted.null)
        => CountAlias(call.ret, call.accepted.val) = 1


\* C11: in a text with a script import the planner returns the line after
\* the last line that holds a script import, asks for no blank line before,
\* and asks for a blank line after exactly when the line at that index is
\* missing or not blank; stated for calls that find the shared pattern
\* fresh (lastIndex 0), for any number of script-import lines
C11_AfterLastScriptImport ==
    (/\ call.op = "getJsImportInsertionPoint"
     /\ call.li = 0
     /\ ScriptImportLines(Split(doc)) # {})
    => call.ret = [line |-> LastOf(ScriptImportLines(Split(doc))) + 1,
                   needsBlankLine |-> FALSE,
                   needsTrailingBlankLine |->
                       ~BlankLineAt(Split(doc), LastOf(ScriptImportLines(Split(doc))) + 1)]

\* C12: after a suggestion is accepted, the script import it inserted lies
\* after every ordinary import line of the text
C12_NewImportAfterOrdinaryImports ==
    call.op = "acceptPlanned"
    => \E i \in NewImportLines(Split(doc), call.item) :
           \A j \in OrdinaryImportLines(Split(doc)) : j < i

\* C13: when the text had ordinary imports and no script import, the
\* accepted suggestion leaves exactly one blank line between the last
\* ordinary import and the script import it inserted
C13_OneBlankLineAfterOrdinaryImports ==
    (/\ call.op = "acceptPlanned"
     /\ OrdinaryImportLines(Split(call.before)) # {}
     /\ ScriptImportLines(Split(call.before)) = {})
    => /\ BlankLineAt(Split(doc), LastOf(OrdinaryImportLines(Split(call.before))) + 1)
       /\ NewImportLines(Split(doc), call.item)
              = {LastOf(OrdinaryImportLines(Split(call.before))) + 2}

\* C14: the planner asks for no blank line where one exists: no trailing
\* blank line when the line at the planned index is blank, no leading blank
\* line when the line before the planned index is blank
C14_NoBlankLineWhereOneExists ==
    call.op = "getJsImportInsertionPoint"
    => /\ call.ret.needsTrailingBlankLine => ~BlankLineAt(Split(doc), call.ret.line)
       /\ call.ret.needsBlankLine
              => ~(call.ret.line >= 1 /\ BlankLineAt(Split(doc), call.ret.line - 1))

\* C15: in a text with ordinary imports and no script import the planner
\* returns the line after the last ordinary import, or the one after that
\* when a blank line follows the import; it asks for a blank line before
\* exactly when none follows the import, and always for one after
C15_AfterLastOrdinaryImport ==
    (/\ call.op = "getJsImportInsertionPoint"
     /\ OrdinaryImportLines(Split(doc)) # {}
     /\ ScriptImportLines(Split(doc)) = {})
    => call.ret =
         [line |-> IF BlankLineAt(Split(doc), LastOf(OrdinaryImportLines(Split(doc))) + 1)
                   THEN LastOf(OrdinaryImportLines(Split(doc))) + 2
                   ELSE LastOf(OrdinaryImportLines(Split(doc))) + 1,
          needsBlankLine |->
              ~BlankLineAt(Split(doc), LastOf(OrdinaryImportLines(Split(doc))) + 1),
          needsTrailingBlankLine |-> TRUE]

\* the planner was called on a text of one ordinary import line
C15_Witness ==
    /\ call.op = "getJsImportInsertionPoint"
    /\ doc = <<"i", "m", "p", "o", "r", "t", " ", "Q", "t", "Q", "u", "i", "c", "k", " ", "2", ".", "0">>
    /\ call.ret = [line |-> 1, needsBlankLine |-> TRUE, needsTrailingBlankLine |-> TRUE]

\* C16: in a text without an import of either kind the planner returns
\* line 0 and asks for no blank line before; it asks for a blank line after
\* exactly when the first line has content, so never for an empty text
C16_TopOfTextWithoutImports ==
    (/\ call.op = "getJsImportInsertionPoint"
     /\ OrdinaryImportLines(Split(doc)) = {}
     /\ ScriptImportLines(Split(doc)) = {})
    => /\ call.ret.line = 0
       /\ ~call.ret.needsBlankLine
       /\ call.ret.needsTrailingBlankLine = ~BlankLineAt(Split(doc), 0)
       /\ call.ret.needsTrailingBlankLine => doc # <<>>

\* the planner was called on the empty text
C16_Witness ==
    /\ call.op = "getJsImportInsertionPoint"
    /\ doc = <<>>
    /\ call.ret = [line |-> 0, needsBlankLine |-> FALSE, needsTrailingBlankLine |-> FALSE]

\* C17: the planner is pure: a call that follows another call on the same
\* text returns what that call returned
C17_PlannerIsPure ==
    [][(/\ call.op = "getJsImportInsertionPoint"
        /\ call'.op = "getJsImportInsertionPoint"
        /\ doc' = doc)
       => call'.ret = call.ret]_vars

\* C18: a provider offers auto-import suggestions only when the identifier
\* at the cursor has at least two characters, begins with an upper-case
\* letter and is not bound to an alias by an import of the text
C18_SuggestOnlyForUnboundCapitalizedWord ==
    (/\ call.op \in {"provideCompletionItems", "provideCodeActions"}
     /\ call.ret # <<>>)
    => /\ ~WordAt(doc, call.arg).null
       /\ Len(WordAt(doc, call.arg).val) >= 2
       /\ WordAt(doc, call.arg).val[1] \in Range(Upper)
       /\ ~AliasBound(Split(doc), WordAt(doc, call.arg).val)

C20_MatchesInEnumerationOrder ==
    call.op = "findMatchingJsFiles"
    => /\ Len(call.ret) = Len(FilesTyped(call.arg))
       /\ \A k \in 1..Len(call.ret) :
              /\ call.ret[k].path = WorkspaceFiles[FilesTyped(call.arg)[k]]
              /\ call.ret[k].alias = WorkspaceAliases[FilesTyped(call.arg)[k]]

\* the files for the identifier ut were looked up: util.js, then util-helper.js
C20_Witness ==
    /\ call.op = "findMatchingJsFiles"
    /\ call.arg = <<"u", "t">>
    /\ Len(call.ret) = 2
    /\ call.ret[1].alias = <<"U", "t", "i", "l", "J", "S">>
    /\ call.ret[2].alias = <<"U", "t", "i", "l", "H", "e", "l", "p", "e", "r", "J", "S">>

\* C21: the relative path of every match begins with "./" or "../",
\* wherever the candidate file lies
C21_RelativePathIsDotted ==
    call.op = "findMatchingJsFiles"
    => \A k \in 1..Len(call.ret) :
           \/ StartsWith(call.ret[k].relativePath, <<".", "/">>)
           \/ StartsWith(call.ret[k].relativePath, <<".", ".", "/">>)

\* C27: no suggestion of either provider proposes an alias that an import
\* of the text already binds
C27_NoSuggestionOfBoundAlias ==
    call.op \in {"provideCompletionItems", "provideCodeActions"}
    => \A k \in 1..Len(call.ret) : ~AliasBound(Split(doc), call.ret[k].alias)

\* C22: after a change notification for a script path the cache holds no
\* entry for it, and the completion request that follows on that path
\* reads the file again: what it returns is the list parsed from the
\* content the file had when the request read it
C22_ChangeInvalidates ==
    /\ call.op = "onDidChange" => jsFileCache[call.path].null
    /\ (call.op = "provideCompletionItems" /\ call.after /\ ~call.path.null)
       => /\ call.source = "disk"
          /\ call.ret = IF call.began # "absent" /\ call.ended = "file"
                           /\ ContentOf(call.at) # <<>>
                        THEN Val(parseJavaScriptFunctions(ContentOf(call.at)))
                        ELSE Null

\* a completion that followed a notification returned the functions of the
\* rewritten file
C22_Witness ==
    /\ call.op = "provideCompletionItems"
    /\ call.after
    /\ call.at = 1
    /\ ~call.ret.null
    /\ Len(call.ret.val) = 1
    /\ call.ret.val[1].name = <<"f">>
    /\ call.ret.val[1].params = <<<<"x">>>>

\* C23: a completion, hover or definition request whose alias resolves to
\* a file that is not there, or cannot be read, while the request runs
\* returns nothing
C23_MissingFileGivesNothing ==
    (/\ call.op \in RequestOps
     /\ ~call.path.null
     /\ call.began # "file"
     /\ call.ended # "file")
    => call.ret.null

\* C24: safeReadFile returns the content of the file, or null when the
\* file is absent at the existence check, is removed before the read, or
\* cannot be read; it never raises
C24_SafeReadFileNeverRaises ==
    /\ (call.op \in RequestOps /\ call.source = "disk")
       => call.read = IF call.began # "absent" /\ call.ended = "file"
                      THEN Val(ContentOf(call.at)) ELSE Null
    /\ request.pc \in {"read", "stored"} => request.read = Val(ContentOf(request.at))

\* the file was there at the existence check and gone at the read
C24_Witness ==
    /\ call.op \in RequestOps
    /\ call.source = "disk"
    /\ call.began = "file"
    /\ call.ended = "absent"
    /\ call.read = Null
    /\ call.ret = Null

\* C26: definition returns nothing exactly when hover returns nothing on
\* the same content and name, and otherwise the line of the earliest
\* declaration of the name at the left margin
C26_DefinitionAgreesWithHover ==
    (/\ call.op = "provideDefinition"
     /\ call.source = "disk"
     /\ ~NoContent(call.read))
    => /\ call.ret.null = HoverOf(call.read.val, NameOnLine(call.arg)).null
       /\ ~call.ret.null
          => /\ DeclarationLines(call.read.val, NameOnLine(call.arg)) # {}
             /\ call.ret.val.line + 1
                  = LeastOf(DeclarationLines(call.read.val, NameOnLine(call.arg)))

\* C29: when no change notification is pending, a cache entry of a path
\* is the list parsed from the current content of the file
C29_CacheCoherent ==
    \A p \in ScriptPaths :
        (/\ pending[p] = 0
         /\ ~jsFileCache[p].null
         /\ files[p].mode = "file")
        => jsFileCache[p] = Val(parseJavaScriptFunctions(ContentOf(files[p].version)))

\* C30: a path with a cache entry has a registered watcher once the
\* request that stored the entry has returned, and no path has more than
\* one registered watcher
C30_OneWatcherPerPath ==
    \A p \in ScriptPaths :
        /\ (request = Idle /\ ~jsFileCache[p].null) => Watchers(p) >= 1
        /\ Watchers(p) <= 1

\* C25: when markup files cannot be opened the search goes on, and what
\* it returns is what the search finds in the other files, in their order
\* (f is the one function that ScriptDocument declares)
C25_FailingFilesAreSkipped ==
    (call.op = "provideReferences" /\ ~call.ret.null)
    => call.ret.val
         = SearchLoop(Others(1, call.failing), 1, {}, ScriptDocument.fileName,
                      <<"f">>, call.li, <<>>)

\* the first file, which has usages, could not be opened, and the usages
\* of the three others were returned
C25_Witness ==
    /\ call.op = "provideReferences"
    /\ call.failing = {1}
    /\ call.li = 0
    /\ ~call.ret.null
    /\ Len(call.ret.val) = 2
    /\ call.ret.val[1].uri = <<<<"w">>, <<"T", "w", "o", ".", "q", "m", "l">>>>
    /\ call.ret.val[2].uri = <<<<"w">>, <<"u", "i">>, <<"P", "a", "g", "e", ".", "q", "m", "l">>>>

\* C28: the locations returned hold every usage of the function under
\* every alias under which an opened markup file imports the script
C28_EveryAliasIsSearched ==
    (call.op = "provideReferences" /\ ~call.ret.null)
    => \A i \in (1..Len(QmlFiles)) \ call.failing :
         \A alias \in AliasesOfScript(Split(QmlFiles[i].text), DirOf(i)) :
           \A ln \in 1..Len(Split(QmlFiles[i].text)) :
             \A c \in UsageColumns(Split(QmlFiles[i].text)[ln], alias, <<"f">>) :
               \E k \in 1..Len(call.ret.val) :
                  /\ call.ret.val[k].uri = QmlFiles[i].fsPath
                  /\ call.ret.val[k].line = ln - 1
                  /\ call.ret.val[k].start = c
                  /\ call.ret.val[k].end = c + 1
=============================================================================
